---- MODULE Spec2Model ----
(***************************************************************************)
(* State-machine model of the survival-companion controller:               *)
(* SurvivalPersona (personas/survival/survival_persona.py) and the Flask   *)
(* handlers of app.py that drive it.  boot() runs on its own worker thread *)
(* (app.py api_boot), so it is modelled as a process with a program        *)
(* counter; the other operations are request handlers that interleave      *)
(* with it.                                                                *)
(***************************************************************************)
EXTENDS Integers, Sequences, FiniteSets, TLC

(* ---------------------------------------------------------------------- *)
(* Bounds of the model                                                     *)
(* ---------------------------------------------------------------------- *)
\* calls made on one controller (boot, requests, registrations) plus the
\* faults its environment injects (a step made to raise, a device that does
\* not answer), over one behaviour
MaxEvents == 3

(* ---------------------------------------------------------------------- *)
(* Enumerations and constants of the program                               *)
(* ---------------------------------------------------------------------- *)
SystemState ==
  {"booting", "initializing", "ready", "active_voice", "active_vision",
   "emergency", "low_power", "shutting_down"}

MemoryState == {"idle", "fast_llm", "medical_llm", "vision_active"}

\* the (name, function) table of boot(): the names, in pipeline order
steps ==
  << "Loading configuration", "Initializing display", "Scanning I2C devices",
     "Initializing sensors", "Initializing GPS", "Warming up LLM",
     "Activating wake word", "Loading dashboard" >>

NumSteps == Len(steps)

\* default thresholds of set_battery_level's config lookups
DefaultLowThreshold == 20
DefaultCriticalThreshold == 10

\* the power section of a configuration file that sets both thresholds
CustomPower == [low_battery_threshold |-> 21, critical_battery_threshold |-> 11]

\* battery levels a caller may pass (any integer is accepted)
Levels == {-1, 10, 11, 20, 21, 101}

\* an observer either returns or raises whenever it is called
Observers == {"ok", "raises"}

\* what the configuration file holds when _load_config reads it
ConfigFiles == {"absent", "malformed", "empty", "keyless", "custom"}

(* ---------------------------------------------------------------------- *)
(* Pure functions                                                          *)
(* ---------------------------------------------------------------------- *)
Min(a, b) == IF a <= b THEN a ELSE b
Max(a, b) == IF a >= b THEN a ELSE b

\* a clamp without its lower bound
ClampUpperOnly(level) == Min(100, level)

\* max(0, min(100, level))
Clamp(level) == Max(0, Min(100, level))

HexDigit(d) ==
  <<"0","1","2","3","4","5","6","7","8","9","A","B","C","D","E","F">>[d + 1]

\* f"{addr:02X}" for a one-byte address
Hex02(addr) == <<HexDigit(addr \div 16), HexDigit(addr % 16)>>

\* expected_devices of _boot_i2c_scan, in dict order
expected_devices ==
  << [addr |-> 87,  name |-> "MAX30102 (SpO2/HR)"],
     [addr |-> 90,  name |-> "MLX90614 (Temperature)"],
     [addr |-> 118, name |-> "BME280 (Environment)"] >>

\* f"{name} at 0x{addr:02X}", kept as its fragments
DeviceLabel(d) == <<d.name, " at 0x">> \o Hex02(d.addr)

\* an error message that leaves the step name out
ErrorMsgNoStep(step_name, cause) == <<"Error: ", cause>>

\* f"Error during '{step_name}': {str(e)}", kept as its fragments
ErrorMsg(step_name, cause) == <<"Error during '", step_name, "': ", cause>>

\* self.config values: {} of __init__, the dict of _use_default_config,
\* None (yaml.safe_load of an empty document), a mapping without a power
\* section ({}), a mapping whose power section sets both thresholds
ConfigValues == {"empty_dict", "default", "none", "custom"}

\* yaml.safe_load of the file, or the exception it raises
LoadedConfig(file) ==
  CASE file = "absent"    -> "default"
    [] file = "malformed" -> "default"
    [] file = "empty"     -> "none"
    [] file = "keyless"   -> "empty_dict"
    [] file = "custom"    -> "custom"

\* self.config.get(...) raises AttributeError when self.config is None
ConfigIsMapping(cfg) == cfg # "none"

LowThreshold(cfg) ==
  IF cfg = "custom" THEN CustomPower.low_battery_threshold
  ELSE DefaultLowThreshold

CriticalThreshold(cfg) ==
  IF cfg = "custom" THEN CustomPower.critical_battery_threshold
  ELSE DefaultCriticalThreshold

AttributeErrorText == "'NoneType' object has no attribute 'get'"
FaultText == "fault"

(* ---------------------------------------------------------------------- *)
(* State                                                                   *)
(* ---------------------------------------------------------------------- *)
VARIABLES
  state,            \* self.state
  memory_state,     \* self.memory_state
  boot_status,      \* self.boot_status (BootStatus)
  sensor_status,    \* self.sensor_status (SensorStatus)
  config,           \* self.config
  is_pi_hardware,   \* self.is_pi_hardware
  state_callbacks,  \* self._state_callbacks
  boot_callbacks,   \* self._boot_callbacks
  now,              \* the clock time.time() reads; it never goes backwards
                    \* and advances over each time.sleep of a simulated step
  pc,               \* where the boot() worker is
  step_idx,         \* index of the pipeline step boot() is at
  simulated,        \* simulate or not self.is_pi_hardware, of the current boot() call
  boot_result,      \* what the last boot() call returned
  progress,         \* boot-progress events delivered in the current boot() call
  executed,         \* steps the current boot() call has run
  failed,           \* steps of the current boot() call that raised
  interleaved,      \* a request was handled since the current boot() call began
  last_op,          \* the operation that took the last step
  notified,         \* state-change notifications delivered by the last step
  boots,            \* boot() calls made so far
  status_pc,        \* where a get_status() call of a status query is
  snapshot,         \* the dict that call builds, then the one it returned
  events            \* calls and faults so far, for MaxEvents

vars ==
  << state, memory_state, boot_status, sensor_status, config, is_pi_hardware,
     state_callbacks, boot_callbacks, now, pc, step_idx, simulated,
     boot_result, progress, executed, failed, interleaved, last_op, notified,
     boots, status_pc, snapshot, events >>

\* a BootStatus whose battery_level defaults to 0
BootStatusBatteryZero ==
  [ display_initialized |-> FALSE, sensors_initialized |-> FALSE,
    gps_initialized |-> FALSE, i2c_devices_detected |-> <<>>,
    llm_warming_up |-> FALSE, llm_ready |-> FALSE, wake_word_active |-> FALSE,
    dashboard_ready |-> FALSE, battery_level |-> 0, gps_fix |-> FALSE,
    boot_start_time |-> 0, boot_complete_time |-> 0, errors |-> <<>> ]

\* BootStatus() of the dataclass
BootStatusInit ==
  [ display_initialized |-> FALSE, sensors_initialized |-> FALSE,
    gps_initialized |-> FALSE, i2c_devices_detected |-> <<>>,
    llm_warming_up |-> FALSE, llm_ready |-> FALSE, wake_word_active |-> FALSE,
    dashboard_ready |-> FALSE, battery_level |-> 100, gps_fix |-> FALSE,
    boot_start_time |-> 0, boot_complete_time |-> 0, errors |-> <<>> ]

\* SensorStatus() of the dataclass
SensorStatusInit ==
  [ max30102_connected |-> FALSE, mlx90614_connected |-> FALSE,
    bme280_connected |-> FALSE, gps_connected |-> FALSE, gps_fix |-> FALSE,
    latitude |-> 0, longitude |-> 0, altitude |-> 0,
    camera_ready |-> FALSE, adc_ready |-> FALSE ]

\* an is_ready entry taken from the dashboard flag
IsReadyFromDashboard(st) == boot_status.dashboard_ready

\* the "is_ready" entry of get_status(): self.state == SystemState.READY
IsReady(st) == st = "ready"

\* get_status() evaluated on given fields
StatusOf(st, mem, bs, ss) ==
  [ state |-> st,
    memory_state |-> mem,
    boot_status |->
      [ display |-> bs.display_initialized, sensors |-> bs.sensors_initialized,
        gps |-> bs.gps_initialized, i2c_devices |-> bs.i2c_devices_detected,
        llm_ready |-> bs.llm_ready, wake_word |-> bs.wake_word_active,
        dashboard |-> bs.dashboard_ready, battery |-> bs.battery_level,
        gps_fix |-> bs.gps_fix, errors |-> bs.errors ],
    sensors |->
      [ max30102 |-> ss.max30102_connected, mlx90614 |-> ss.mlx90614_connected,
        bme280 |-> ss.bme280_connected, gps |-> ss.gps_connected,
        camera |-> ss.camera_ready ],
    is_ready |-> IsReady(st) ]

get_status == StatusOf(state, memory_state, boot_status, sensor_status)

\* _notify_state_change without its try/except: the callbacks after the
\* first one that raises are not called
NotifyStateChangeUncaught(callbacks, status) ==
  LET raising == {j \in 1..Len(callbacks) : callbacks[j] = "raises"}
      last == IF raising = {} THEN Len(callbacks)
              ELSE CHOOSE j \in raising : \A i \in raising : j <= i
  IN [k \in 1..last |-> [observer |-> k, status |-> status]]

\* _notify_state_change: every callback of the list is called with the
\* status, in list order; what a callback raises is caught and logged
NotifyStateChange(callbacks, status) ==
  [k \in 1..Len(callbacks) |-> [observer |-> k, status |-> status]]

\* _notify_boot_progress without its try/except: the first callback that
\* raises ends the loop
RECURSIVE NotifyBootProgressUncaught(_, _)
NotifyBootProgressUncaught(callbacks, step_name) ==
  IF callbacks = <<>> THEN <<>>
  ELSE IF Head(callbacks) = "raises"
    THEN <<[observer |-> 1, step |-> step_name]>>
    ELSE <<[observer |-> 1, step |-> step_name]>> \o
         [k \in 1..Len(NotifyBootProgressUncaught(Tail(callbacks), step_name)) |->
            [observer |-> k + 1, step |-> step_name]]

\* _notify_boot_progress: every callback of the list is called with the
\* step name, in list order; what a callback raises is caught and logged
NotifyBootProgress(callbacks, step_name) ==
  [k \in 1..Len(callbacks) |-> [observer |-> k, step |-> step_name]]

Init ==
  /\ state = "booting"
  /\ memory_state = "idle"
  /\ boot_status = BootStatusInit
  /\ sensor_status = SensorStatusInit
  /\ config = "empty_dict"
  /\ is_pi_hardware \in BOOLEAN
  /\ state_callbacks = <<>>
  /\ boot_callbacks = <<>>
  /\ now = 1
  /\ pc = "idle"
  /\ step_idx = 0
  /\ simulated = FALSE
  /\ boot_result = "none"
  /\ progress = <<>>
  /\ executed = <<>>
  /\ failed = <<>>
  /\ interleaved = FALSE
  /\ last_op = [op |-> "init"]
  /\ notified = <<>>
  /\ boots = 0
  /\ status_pc = "idle"
  /\ snapshot = <<>>
  /\ events = 0


(* ---------------------------------------------------------------------- *)
(* The boot steps.  Each takes the records it may change and returns them  *)
(* with exc, the text of the exception it raised ("none" when it          *)
(* returned).                                                              *)
(* ---------------------------------------------------------------------- *)
StepResult(bs, ss, cfg, exc) == [bs |-> bs, ss |-> ss, cfg |-> cfg, exc |-> exc]

\* _boot_load_config / _load_config: the file's document, or the defaults
\* when the file is absent or does not parse; it never raises
boot_load_config(bs, ss, cfg, file) ==
  StepResult(bs, ss, LoadedConfig(file), "none")

\* _boot_display: display_module says whether personas.survival.ui imports
boot_display(sim, bs, ss, cfg, display_module) ==
  IF sim
    THEN StepResult([bs EXCEPT !.display_initialized = TRUE], ss, cfg, "none")
    ELSE IF display_module = "missing"
      THEN StepResult([bs EXCEPT !.display_initialized = TRUE], ss, cfg, "none")
      ELSE IF ConfigIsMapping(cfg)
        THEN StepResult([bs EXCEPT !.display_initialized = TRUE], ss, cfg, "none")
        ELSE StepResult(bs, ss, cfg, AttributeErrorText)

\* the labels of the devices of expected_devices whose index is in found,
\* in dict order
RECURSIVE FoundLabels(_, _)
FoundLabels(i, found) ==
  IF i > Len(expected_devices) THEN <<>>
  ELSE (IF i \in found THEN <<DeviceLabel(expected_devices[i])>> ELSE <<>>)
       \o FoundLabels(i + 1, found)

\* _boot_i2c_scan: smbus says whether smbus2 imports, found which addresses
\* answer read_byte
boot_i2c_scan(sim, bs, ss, cfg, smbus, found) ==
  IF sim
    THEN StepResult(
           [bs EXCEPT !.i2c_devices_detected = @ \o FoundLabels(1, {1, 2, 3})],
           [ss EXCEPT !.max30102_connected = TRUE,
                      !.mlx90614_connected = TRUE,
                      !.bme280_connected = TRUE],
           cfg, "none")
    ELSE IF smbus = "missing"
      THEN StepResult(bs, ss, cfg, "none")
      ELSE StepResult(
             [bs EXCEPT !.i2c_devices_detected = @ \o FoundLabels(1, found)],
             [ss EXCEPT !.max30102_connected = (@ \/ 1 \in found),
                        !.mlx90614_connected = (@ \/ 2 \in found),
                        !.bme280_connected = (@ \/ 3 \in found)],
             cfg, "none")

\* _boot_sensors
boot_sensors(sim, bs, ss, cfg) ==
  IF sim
    THEN StepResult([bs EXCEPT !.sensors_initialized = TRUE],
                    [ss EXCEPT !.adc_ready = TRUE, !.camera_ready = TRUE],
                    cfg, "none")
    ELSE StepResult([bs EXCEPT !.sensors_initialized = TRUE], ss, cfg, "none")

\* _boot_gps
boot_gps(sim, bs, ss, cfg) ==
  IF sim
    THEN StepResult([bs EXCEPT !.gps_initialized = TRUE],
                    [ss EXCEPT !.gps_connected = TRUE, !.gps_fix = FALSE],
                    cfg, "none")
    ELSE StepResult([bs EXCEPT !.gps_initialized = TRUE],
                    [ss EXCEPT !.gps_connected = TRUE], cfg, "none")

\* _boot_llm: llm_warming_up is raised for the warm-up and lowered again
boot_llm(sim, bs, ss, cfg) ==
  StepResult([bs EXCEPT !.llm_ready = TRUE, !.llm_warming_up = FALSE],
             ss, cfg, "none")

\* _boot_wake_word: in simulation the wake words are read from the
\* configuration after the flag is set
boot_wake_word(sim, bs, ss, cfg) ==
  IF sim
    THEN StepResult([bs EXCEPT !.wake_word_active = TRUE], ss, cfg,
                    IF ConfigIsMapping(cfg) THEN "none" ELSE AttributeErrorText)
    ELSE StepResult([bs EXCEPT !.wake_word_active = TRUE], ss, cfg, "none")

\* _boot_dashboard that sets the flag on real hardware only
boot_dashboard_real_only(sim, bs, ss, cfg) ==
  IF sim THEN StepResult(bs, ss, cfg, "none")
  ELSE StepResult([bs EXCEPT !.dashboard_ready = TRUE], ss, cfg, "none")

\* _boot_dashboard
boot_dashboard(sim, bs, ss, cfg) ==
  StepResult([bs EXCEPT !.dashboard_ready = TRUE], ss, cfg, "none")

\* step_func(simulate=...) for the i-th entry of the table; env holds what
\* the step finds outside the program
StepFunc(i, sim, bs, ss, cfg, env) ==
  CASE i = 1 -> boot_load_config(bs, ss, cfg, env.file)
    [] i = 2 -> boot_display(sim, bs, ss, cfg, env.display_module)
    [] i = 3 -> boot_i2c_scan(sim, bs, ss, cfg, env.smbus, env.found)
    [] i = 4 -> boot_sensors(sim, bs, ss, cfg)
    [] i = 5 -> boot_gps(sim, bs, ss, cfg)
    [] i = 6 -> boot_llm(sim, bs, ss, cfg)
    [] i = 7 -> boot_wake_word(sim, bs, ss, cfg)
    [] i = 8 -> boot_dashboard(sim, bs, ss, cfg)

\* what a step may find outside the program
Envs(i, sim) ==
  [ file : IF i = 1 THEN ConfigFiles ELSE {"absent"},
    display_module : IF i = 2 /\ ~sim THEN {"missing", "present"} ELSE {"missing"},
    smbus : IF i = 3 /\ ~sim THEN {"missing", "present"} ELSE {"missing"},
    found : IF i = 3 /\ ~sim THEN SUBSET {1, 2, 3} ELSE {{1, 2, 3}} ]

Running == pc \in {"notify", "step", "finish"}

(* ---------------------------------------------------------------------- *)
(* boot(), on its worker                                                   *)
(* ---------------------------------------------------------------------- *)
\* boot(): the start timestamp, state = BOOTING and its notification
BootStart(sim_arg) ==
  /\ pc \in {"idle", "done"}
  /\ events < MaxEvents
  /\ events' = events + 1
  /\ boots' = boots + 1
  /\ simulated' = (sim_arg \/ ~is_pi_hardware)
  /\ boot_status' = [boot_status EXCEPT !.boot_start_time = now]
  /\ state' = "booting"
  /\ notified' = NotifyStateChange(state_callbacks,
                   StatusOf("booting", memory_state, boot_status', sensor_status))
  /\ pc' = "notify"
  /\ step_idx' = 1
  /\ boot_result' = "none"
  /\ progress' = <<>>
  /\ executed' = <<>>
  /\ failed' = <<>>
  /\ interleaved' = FALSE
  /\ last_op' = [op |-> "boot"]
  /\ UNCHANGED << status_pc, snapshot,
                  memory_state, sensor_status, config, is_pi_hardware,
                  state_callbacks, boot_callbacks, now >>

\* the loop body up to the try: _notify_boot_progress(step_name)
BootNotify ==
  /\ pc = "notify"
  /\ progress' = progress \o NotifyBootProgress(boot_callbacks, steps[step_idx])
  /\ pc' = "step"
  /\ last_op' = [op |-> "boot_notify"]
  /\ notified' = <<>>
  /\ UNCHANGED << status_pc, snapshot,
                  state, memory_state, boot_status, sensor_status, config,
                  is_pi_hardware, state_callbacks, boot_callbacks, now,
                  step_idx, simulated, boot_result, executed, failed,
                  interleaved, boots, events >>

\* a loop without its except clause: what a step raises leaves boot()
AfterStepRaise(i, exc) ==
  IF exc # "none" THEN "idle"
  ELSE IF i < NumSteps THEN "notify" ELSE "finish"

\* a loop that a raising step ends
AfterStepAbort(i, exc) ==
  IF i < NumSteps /\ exc = "none" THEN "notify" ELSE "finish"

\* where the loop goes after step i, whatever the step raised (exc)
\* the faults a step's environment injects: the step raising, and every
\* expected device that does not answer the scan
EnvFaults(fault, env) ==
  IF fault THEN 1
  ELSE IF env.smbus = "present"
    THEN Len(expected_devices) - Cardinality(env.found) ELSE 0

AfterStep(i, exc) == IF i < NumSteps THEN "notify" ELSE "finish"

\* the except clause of the loop body: the message is appended to errors
RecordError(bs, step_name, exc) ==
  IF exc = "none" THEN bs
  ELSE [bs EXCEPT !.errors = Append(@, ErrorMsg(step_name, exc))]

\* a completion that does not test the dashboard flag
BootSucceededAlways(bs) == TRUE

\* a success test on the absence of errors instead of the dashboard flag
BootSucceededNoErrors(bs) == bs.errors = <<>>

\* if self.boot_status.dashboard_ready, after the loop
BootSucceeded(bs) == bs.dashboard_ready

\* the try of the loop body: the step runs; an exception it raises is
\* appended to errors and the loop goes on.  fault: the step function (a
\* driver, an injected failure) raises before it changes anything.
BootStep(fault, env) ==
  /\ pc = "step"
  /\ events + EnvFaults(fault, env) <= MaxEvents
  /\ LET r == IF fault
                THEN StepResult(boot_status, sensor_status, config, FaultText)
                ELSE StepFunc(step_idx, simulated, boot_status, sensor_status,
                              config, env)
     IN /\ sensor_status' = r.ss
        /\ config' = r.cfg
        /\ boot_status' = RecordError(r.bs, steps[step_idx], r.exc)
        /\ failed' = IF r.exc = "none" THEN failed ELSE Append(failed, step_idx)
        /\ pc' = AfterStep(step_idx, r.exc)
  /\ events' = events + EnvFaults(fault, env)
  /\ executed' = Append(executed, step_idx)
  /\ now' = IF simulated THEN now + 1 ELSE now
  /\ step_idx' = IF step_idx < NumSteps THEN step_idx + 1 ELSE step_idx
  /\ last_op' = [op |-> "boot_step"]
  /\ notified' = <<>>
  /\ UNCHANGED << status_pc, snapshot,
                  state, memory_state, is_pi_hardware, state_callbacks,
                  boot_callbacks, simulated, boot_result, progress,
                  interleaved, boots >>

\* after the loop: the completion timestamp, READY and True when the
\* dashboard is ready, False otherwise
BootFinish ==
  /\ pc = "finish"
  /\ boot_status' = [boot_status EXCEPT !.boot_complete_time = now]
  /\ state' = IF BootSucceeded(boot_status) THEN "ready" ELSE state
  /\ boot_result' = IF BootSucceeded(boot_status) THEN "True" ELSE "False"
  /\ pc' = "done"
  /\ last_op' = [op |-> "boot_return"]
  /\ notified' = <<>>
  /\ UNCHANGED << status_pc, snapshot,
                  memory_state, sensor_status, config, is_pi_hardware,
                  state_callbacks, boot_callbacks, now, step_idx, simulated,
                  progress, executed, failed, interleaved, boots, events >>


(* ---------------------------------------------------------------------- *)
(* Requests handled while boot() may be running                            *)
(* ---------------------------------------------------------------------- *)
\* set_battery_level that leaves LOW_POWER when the level is back above
\* the low threshold
PowerStateAutoExit(bl, cfg, st) ==
  IF bl <= CriticalThreshold(cfg) THEN st
  ELSE IF bl <= LowThreshold(cfg) /\ st # "low_power" THEN "low_power"
  ELSE IF bl > LowThreshold(cfg) /\ st = "low_power" THEN "ready"
  ELSE st

\* set_battery_level whose critical branch shuts the system down
PowerStateShutsDown(bl, cfg, st) ==
  IF bl <= CriticalThreshold(cfg) THEN "shutting_down"
  ELSE IF bl <= LowThreshold(cfg) /\ st # "low_power" THEN "low_power"
  ELSE st

\* set_battery_level with a critical branch that forces EMERGENCY
PowerStateForcesEmergency(bl, cfg, st) ==
  IF bl <= CriticalThreshold(cfg) THEN "emergency"
  ELSE IF bl <= LowThreshold(cfg) /\ st # "low_power" THEN "low_power"
  ELSE st

\* the branches of set_battery_level on the stored level bl: the state it
\* leaves, given the state st it finds
PowerState(bl, cfg, st) ==
  IF bl <= CriticalThreshold(cfg) THEN st
  ELSE IF bl <= LowThreshold(cfg) /\ st # "low_power" THEN "low_power"
  ELSE st

\* set_battery_level(level), as api_battery calls it: the level is stored
\* clamped; the threshold lookups raise when the configuration is None;
\* at or below the critical threshold only a warning is logged; at or below
\* the low threshold the state becomes LOW_POWER unless it is already
set_battery_level(level) ==
  /\ events < MaxEvents
  /\ events' = events + 1
  /\ boot_status' = [boot_status EXCEPT !.battery_level = Clamp(level)]
  /\ IF ~ConfigIsMapping(config)
       THEN /\ state' = state
            /\ notified' = <<>>
            /\ last_op' = [op |-> "set_battery_level", level |-> level,
                           raised |-> TRUE]
       ELSE /\ last_op' = [op |-> "set_battery_level", level |-> level,
                           raised |-> FALSE]
            /\ state' = PowerState(boot_status'.battery_level, config, state)
            /\ notified' =
                 IF state' # state
                   THEN NotifyStateChange(state_callbacks,
                          StatusOf(state', memory_state, boot_status',
                                   sensor_status))
                   ELSE <<>>
  /\ interleaved' = TRUE
  /\ UNCHANGED << status_pc, snapshot,
                  memory_state, sensor_status, config, is_pi_hardware,
                  state_callbacks, boot_callbacks, now, pc, step_idx, simulated,
                  boot_result, progress, executed, failed, boots >>

\* a shutdown() that also clears the readiness flags
shutdown_clears_flags ==
  /\ events < MaxEvents
  /\ events' = events + 1
  /\ state' = "shutting_down"
  /\ notified' = NotifyStateChange(state_callbacks,
                   StatusOf("shutting_down", memory_state, boot_status,
                            sensor_status))
  /\ memory_state' = "idle"
  /\ boot_status' = [boot_status EXCEPT !.dashboard_ready = FALSE,
                                        !.llm_ready = FALSE,
                                        !.wake_word_active = FALSE]
  /\ last_op' = [op |-> "shutdown"]
  /\ interleaved' = TRUE
  /\ UNCHANGED << status_pc, snapshot, sensor_status, config, is_pi_hardware,
                  state_callbacks, boot_callbacks, now, pc, step_idx, simulated,
                  boot_result, progress, executed, failed, boots >>

\* shutdown(): SHUTTING_DOWN, its notification, then memory_state = IDLE
shutdown ==
  /\ events < MaxEvents
  /\ events' = events + 1
  /\ state' = "shutting_down"
  /\ notified' = NotifyStateChange(state_callbacks,
                   StatusOf("shutting_down", memory_state, boot_status,
                            sensor_status))
  /\ memory_state' = "idle"
  /\ last_op' = [op |-> "shutdown"]
  /\ interleaved' = TRUE
  /\ UNCHANGED << status_pc, snapshot,
                  boot_status, sensor_status, config, is_pi_hardware,
                  state_callbacks, boot_callbacks, now, pc, step_idx, simulated,
                  boot_result, progress, executed, failed, boots >>

\* api_emergency_activate: persona.state = SystemState.EMERGENCY
api_emergency_activate ==
  /\ events < MaxEvents
  /\ events' = events + 1
  /\ state' = "emergency"
  /\ notified' = <<>>
  /\ last_op' = [op |-> "emergency_activate"]
  /\ interleaved' = TRUE
  /\ UNCHANGED << status_pc, snapshot,
                  memory_state, boot_status, sensor_status, config,
                  is_pi_hardware, state_callbacks, boot_callbacks, now, pc,
                  step_idx, simulated, boot_result, progress, executed, failed,
                  boots >>

\* api_emergency_deactivate: persona.state = SystemState.READY
api_emergency_deactivate ==
  /\ events < MaxEvents
  /\ events' = events + 1
  /\ state' = "ready"
  /\ notified' = <<>>
  /\ last_op' = [op |-> "emergency_deactivate"]
  /\ interleaved' = TRUE
  /\ UNCHANGED << status_pc, snapshot,
                  memory_state, boot_status, sensor_status, config,
                  is_pi_hardware, state_callbacks, boot_callbacks, now, pc,
                  step_idx, simulated, boot_result, progress, executed, failed,
                  boots >>

\* what the holder of a get_status() dict reads in it: the scalar entries
\* are values, the "i2c_devices" and "errors" entries are the list objects
\* of the live BootStatus
Held(snap, bs) ==
  [snap EXCEPT !.boot_status.i2c_devices = bs.i2c_devices_detected,
               !.boot_status.errors = bs.errors]

\* a status query (api_status, or any caller of get_status()) on its own
\* thread: the dict entries are evaluated in order, "state" from self.state
\* first
GetStatusRead ==
  /\ status_pc = "idle"
  /\ events < MaxEvents
  /\ events' = events + 1
  /\ snapshot' = <<StatusOf(state, memory_state, boot_status, sensor_status)>>
  /\ status_pc' = "is_ready"
  /\ last_op' = [op |-> "get_status_read"]
  /\ notified' = <<>>
  /\ UNCHANGED << state, memory_state, boot_status, sensor_status, config,
                  is_pi_hardware, state_callbacks, boot_callbacks, now, pc,
                  step_idx, simulated, boot_result, progress, executed, failed,
                  interleaved, boots >>

\* the last entry, "is_ready", from a second read of self.state; the dict
\* is returned
GetStatusReturn ==
  /\ status_pc = "is_ready"
  /\ snapshot' = <<[Held(snapshot[1], boot_status) EXCEPT
                      !.is_ready = IsReady(state)]>>
  /\ status_pc' = "idle"
  /\ last_op' = [op |-> "get_status"]
  /\ notified' = <<>>
  /\ UNCHANGED << state, memory_state, boot_status, sensor_status, config,
                  is_pi_hardware, state_callbacks, boot_callbacks, now, pc,
                  step_idx, simulated, boot_result, progress, executed, failed,
                  interleaved, boots, events >>

\* add_state_callback(callback); callers register before they start boot()
\* (api_boot), so no registration runs while boot() does
add_state_callback(callback) ==
  /\ ~Running
  /\ events < MaxEvents
  /\ events' = events + 1
  /\ state_callbacks' = Append(state_callbacks, callback)
  /\ last_op' = [op |-> "add_state_callback"]
  /\ notified' = <<>>
  /\ UNCHANGED << status_pc, snapshot,
                  state, memory_state, boot_status, sensor_status, config,
                  is_pi_hardware, boot_callbacks, now, pc, step_idx, simulated,
                  boot_result, progress, executed, failed, interleaved, boots >>

\* add_boot_callback(callback)
add_boot_callback(callback) ==
  /\ ~Running
  /\ events < MaxEvents
  /\ events' = events + 1
  /\ boot_callbacks' = Append(boot_callbacks, callback)
  /\ last_op' = [op |-> "add_boot_callback"]
  /\ notified' = <<>>
  /\ UNCHANGED << status_pc, snapshot,
                  state, memory_state, boot_status, sensor_status, config,
                  is_pi_hardware, state_callbacks, now, pc, step_idx, simulated,
                  boot_result, progress, executed, failed, interleaved, boots >>

Next ==
  \/ \E sim_arg \in BOOLEAN : BootStart(sim_arg)
  \/ BootNotify
  \/ \E fault \in BOOLEAN : \E env \in Envs(step_idx, simulated) :
       BootStep(fault, env)
  \/ BootFinish
  \/ \E level \in Levels : set_battery_level(level)
  \/ shutdown
  \/ api_emergency_activate
  \/ api_emergency_deactivate
  \/ \E callback \in Observers : add_state_callback(callback)
  \/ \E callback \in Observers : add_boot_callback(callback)
  \/ GetStatusRead
  \/ GetStatusReturn

Spec == Init /\ [][Next]_vars

\* the thread that runs boot() is scheduled as long as it has a statement
\* to run, and every step and observer call returns or raises
FairSpec ==
  /\ Spec
  /\ WF_vars(BootNotify)
  /\ WF_vars(\E fault \in BOOLEAN : \E env \in Envs(step_idx, simulated) :
               BootStep(fault, env))
  /\ WF_vars(BootFinish)

TypeOK ==
  /\ state \in SystemState
  /\ memory_state \in MemoryState
  /\ config \in ConfigValues
  /\ pc \in {"idle", "notify", "step", "finish", "done"}
  /\ step_idx \in 0..NumSteps
  /\ boot_result \in {"none", "True", "False"}
  /\ status_pc \in {"idle", "is_ready"}
  /\ Len(snapshot) <= 1


(* ---------------------------------------------------------------------- *)
(* Properties                                                              *)
(* ---------------------------------------------------------------------- *)
\* the step names delivered to the k-th boot-progress observer in the
\* current boot() call, in delivery order
RECURSIVE StepsOf(_, _)
StepsOf(log, k) ==
  IF log = <<>> THEN <<>>
  ELSE (IF Head(log).observer = k THEN <<Head(log).step>> ELSE <<>>)
       \o StepsOf(Tail(log), k)

\* load-configuration, init-display, scan-bus-devices, init-sensors,
\* init-gps, warm-llm, activate-wake-word, load-dashboard
PipelineOrder ==
  << "Loading configuration", "Initializing display", "Scanning I2C devices",
     "Initializing sensors", "Initializing GPS", "Warming up LLM",
     "Activating wake word", "Loading dashboard" >>

\* the steps whose progress event the running boot() call has emitted
Announced ==
  CASE pc = "notify" -> step_idx - 1
    [] pc = "step"   -> step_idx
    [] OTHER         -> Len(PipelineOrder)

\* C1: while boot() runs, every registered boot-progress observer has
\* received the events of the steps announced so far, in pipeline order; when
\* the loop is over (pc = "finish") that is exactly the 8 events, whichever
\* steps or observers raised.
C1_BootProgressEvents ==
  Running =>
    \A k \in 1..Len(boot_callbacks) :
      StepsOf(progress, k) = SubSeq(PipelineOrder, 1, Announced)

\* C1 witness: a boot() call with a raising observer and a failed step has
\* finished its loop
C1_Witness ==
  /\ pc = "finish"
  /\ boot_callbacks = <<"raises">>
  /\ failed # <<>>
  /\ Len(StepsOf(progress, 1)) = 8

\* C2: the first boot() on a controller, simulated, all 8 steps succeeding
\* and no request handled meanwhile, returns True, leaves the state READY
\* (is_ready and sensors.bme280 true in get_status) and
\* boot_complete_time >= boot_start_time.
C2_SimulatedBootReady ==
  (pc = "done" /\ boots = 1 /\ simulated /\ failed = <<>> /\ ~interleaved) =>
    /\ boot_result = "True"
    /\ state = "ready"
    /\ get_status.is_ready
    /\ get_status.sensors.bme280
    /\ boot_status.boot_complete_time >= boot_status.boot_start_time
    /\ boot_status.boot_start_time > 0

\* C2 witness: such a boot() has returned, on Pi hardware (where simulation
\* is the caller's choice)
C2_Witness ==
  /\ pc = "done" /\ boots = 1 /\ simulated /\ failed = <<>> /\ ~interleaved
  /\ is_pi_hardware
  /\ state = "ready"

\* the readiness flag a step sets ("none": the step sets no readiness flag)
FlagOfStep(i) ==
  CASE i = 2 -> "display_initialized"
    [] i = 4 -> "sensors_initialized"
    [] i = 5 -> "gps_initialized"
    [] i = 6 -> "llm_ready"
    [] i = 7 -> "wake_word_active"
    [] i = 8 -> "dashboard_ready"
    [] OTHER -> "none"

ReadinessFlags ==
  {"display_initialized", "sensors_initialized", "gps_initialized",
   "llm_ready", "wake_word_active", "dashboard_ready"}

\* what C3 promises of a first boot() call whose only failed step is i
SingleFailureOutcome(i) ==
  /\ boot_result = "True"
  /\ Len(boot_status.errors) = 1
  /\ boot_status.errors[1][2] = PipelineOrder[i]
  /\ \A f \in ReadinessFlags \ {FlagOfStep(i)} : boot_status[f]

AppendedErrors ==
  SubSeq(boot_status.errors, Len(boot_status.errors) - Len(failed) + 1,
         Len(boot_status.errors))

\* C4: a boot() call runs the 8 steps once each in pipeline order whatever
\* fails, and appends one message "Error during '<step>': <cause>" per failed
\* step, in step order.
C4_ContinueOnFailure ==
  /\ Running \/ pc = "done" =>
       /\ Len(failed) <= Len(boot_status.errors)
       /\ \A j \in 1..Len(failed) :
            /\ Len(AppendedErrors[j]) = 4
            /\ AppendedErrors[j][1] = "Error during '"
            /\ AppendedErrors[j][2] = PipelineOrder[failed[j]]
            /\ AppendedErrors[j][3] = "': "
       /\ \A j \in 1..Len(failed) - 1 : failed[j] < failed[j + 1]
  /\ pc \in {"finish", "done"} => executed = <<1, 2, 3, 4, 5, 6, 7, 8>>
  /\ pc = "notify" => executed = [j \in 1..step_idx - 1 |-> j]
  /\ pc = "step" => executed = [j \in 1..step_idx - 1 |-> j]

\* C4 witness: a boot() call in which two steps failed has run all 8
C4_Witness ==
  /\ pc = "done"
  /\ Len(failed) = 2
  /\ Len(executed) = 8

\* C5: boot() returns True exactly when dashboard_ready is true at the end of
\* the pipeline; it always returns a boolean, and when that is False and no
\* request was handled meanwhile the state is BOOTING.
C5_ReturnsDashboardReady ==
  pc = "done" =>
    /\ boot_result \in {"True", "False"}
    /\ (boot_result = "True") <=> boot_status.dashboard_ready
    /\ (boot_result = "False" /\ ~interleaved) => state = "booting"

\* C5 witness: a boot() call has returned False with nothing interleaved
C5_Witness ==
  /\ pc = "done"
  /\ boot_result = "False"
  /\ ~interleaved
  /\ state = "booting"


\* the level set_battery_level is specified to store for an input
ExpectedLevel(level) ==
  IF level < 0 THEN 0 ELSE IF level > 100 THEN 100 ELSE level

\* C6: right after set_battery_level(L) the stored battery_level is
\* max(0, min(100, L)), and battery_level is within 0..100 in every state.
C6_BatteryClamped ==
  /\ boot_status.battery_level \in 0..100
  /\ last_op.op = "set_battery_level" =>
       boot_status.battery_level = ExpectedLevel(last_op.level)

\* C6 witness: a level below the range was passed and 0 is stored
C6_Witness ==
  /\ last_op.op = "set_battery_level"
  /\ last_op.level = -1
  /\ boot_status.battery_level = 0

\* C7: set_battery_level(L) with L at or below the critical threshold leaves
\* the state as it was, EMERGENCY included, and notifies no state observer.
C7_CriticalNoTransition ==
  [][ ( /\ last_op'.op = "set_battery_level"
        /\ last_op'.level <= CriticalThreshold(config) )
      => (state' = state /\ notified' = <<>>) ]_vars

\* C7 witness: a critical level was just set on a controller in EMERGENCY
\* that has a state observer
C7_Witness ==
  /\ last_op.op = "set_battery_level"
  /\ last_op.level <= CriticalThreshold(config)
  /\ ConfigIsMapping(config)
  /\ state = "emergency"
  /\ state_callbacks # <<>>

\* C8: set_battery_level(L) with critical < L <= low moves a state other than
\* LOW_POWER to LOW_POWER and notifies every state observer once; in
\* LOW_POWER it changes nothing and notifies nobody.
C8_LowPowerOnce ==
  [][ ( /\ last_op'.op = "set_battery_level"
        /\ CriticalThreshold(config) < last_op'.level
        /\ last_op'.level <= LowThreshold(config) )
      => /\ state' = "low_power"
         /\ state # "low_power" =>
              /\ Len(notified') = Len(state_callbacks)
              /\ \A k \in 1..Len(notified') :
                   /\ notified'[k].observer = k
                   /\ notified'[k].status.state = "low_power"
         /\ state = "low_power" => notified' = <<>> ]_vars

\* C9: once the state is SHUTTING_DOWN no operation changes it.
C9_ShutdownTerminal ==
  [][ state = "shutting_down" => state' = "shutting_down" ]_vars

\* C10: emergency-deactivate after emergency-activate leaves the state READY
\* unless the state was SHUTTING_DOWN before; in SHUTTING_DOWN emergency
\* activate and deactivate leave the state SHUTTING_DOWN.
C10_EmergencyRoundTrip ==
  [][ /\ ( /\ last_op'.op = "emergency_deactivate"
           /\ last_op.op = "emergency_activate"
           /\ state # "shutting_down" ) => state' = "ready"
      /\ ( /\ last_op'.op \in {"emergency_activate", "emergency_deactivate"}
           /\ state = "shutting_down" ) => state' = "shutting_down" ]_vars

\* the state-change notification of a step reached every state observer
\* once, in registration order, with a status that carries the state st
DeliveredToAll(log, callbacks, st) ==
  /\ Len(log) = Len(callbacks)
  /\ \A k \in 1..Len(log) :
       /\ log[k].observer = k
       /\ log[k].status.state = st

\* C11: every step that changes the state (boot reaching READY, emergency
\* activate and deactivate, entering LOW_POWER, shutdown) notifies every
\* registered state observer with a status that carries the new state.
C11_EveryChangeNotified ==
  [][ state' # state => DeliveredToAll(notified', state_callbacks, state') ]_vars

\* C12: a notification calls every registered observer once, in
\* registration order, whether or not some of them raise, for the state
\* observers and for the boot-progress observers; the operation that
\* notified ends as it does without raising observers.
C12_ObserverIsolation ==
  /\ ( \/ last_op.op \in {"boot", "shutdown"}
       \/ last_op.op = "set_battery_level" /\ notified # <<>> ) =>
       DeliveredToAll(notified, state_callbacks, state)
  /\ last_op.op = "shutdown" =>
       state = "shutting_down" /\ memory_state = "idle"
  /\ last_op.op = "boot" => state = "booting" /\ pc = "notify"
  /\ Running =>
       /\ Len(progress) = Announced * Len(boot_callbacks)
       /\ \A j \in 1..Announced : \A k \in 1..Len(boot_callbacks) :
            progress[(j - 1) * Len(boot_callbacks) + k] =
              [observer |-> k, step |-> steps[j]]
  /\ pc = "step" => Len(executed) = step_idx - 1
  /\ last_op.op = "boot_return" =>
       boot_result = (IF boot_status.dashboard_ready THEN "True" ELSE "False")

C12_Witness ==
  /\ last_op.op = "shutdown"
  /\ state_callbacks = <<"raises", "ok">>
  /\ Len(notified) = 2

\* C13: in every dict get_status() returns, is_ready is true exactly when the
\* state entry is READY, also when the call runs while boot() or a request
\* is running.
C13_Original ==
  (last_op.op = "get_status") =>
    (snapshot[1].is_ready <=> snapshot[1].state = "ready")

\* C13, amended: a get_status() call that finds, at its second read of the
\* state, the state its first read found returns a dict in which is_ready
\* is true exactly when the state entry is READY.
C13_UntornSnapshot ==
  [][ (last_op'.op = "get_status" /\ state = snapshot[1].state) =>
        (snapshot'[1].is_ready <=> snapshot'[1].state = "ready") ]_vars

C13_Witness ==
  /\ last_op.op = "get_status"
  /\ Running
  /\ interleaved
  /\ snapshot[1].state = "ready"
  /\ snapshot[1].is_ready

\* C14: a controller just constructed is BOOTING with memory IDLE, battery
\* 100 and no observer notified; until the first boot() call every readiness
\* and sensor flag is false, the error and device lists are empty and both
\* timestamps are 0.
C14_FreshController ==
  /\ last_op.op = "init" =>
       /\ state = "booting"
       /\ memory_state = "idle"
       /\ boot_status.battery_level = 100
       /\ notified = <<>>
       /\ progress = <<>>
       /\ state_callbacks = <<>> /\ boot_callbacks = <<>>
  /\ boots = 0 =>
       /\ \A f \in { "display_initialized", "sensors_initialized",
                      "gps_initialized", "llm_warming_up", "llm_ready",
                      "wake_word_active", "dashboard_ready", "gps_fix" } :
            ~boot_status[f]
       /\ \A f \in { "max30102_connected", "mlx90614_connected",
                      "bme280_connected", "gps_connected", "gps_fix",
                      "camera_ready", "adc_ready" } :
            ~sensor_status[f]
       /\ boot_status.errors = <<>>
       /\ boot_status.i2c_devices_detected = <<>>
       /\ boot_status.boot_start_time = 0
       /\ boot_status.boot_complete_time = 0
       /\ progress = <<>>

C14_Witness ==
  /\ last_op.op = "add_boot_callback"
  /\ state_callbacks # <<>>
  /\ events = 2
  /\ boots = 0
  /\ notified = <<>> /\ progress = <<>>
  /\ state = "booting"
  /\ boot_status.battery_level = 100

\* C15: set_battery_level, at any level, leaves the state alone when the
\* state is EMERGENCY or SHUTTING_DOWN.
C15_PowerGuard ==
  [][ ( /\ last_op'.op = "set_battery_level"
        /\ state \in {"emergency", "shutting_down"} ) => state' = state ]_vars

\* C16: boot() completing with the dashboard ready sets READY only when the
\* state is still BOOTING; a state another operation set while boot() ran
\* is not overwritten.
C16_ReadyOnlyFromBooting ==
  [][ (last_op'.op = "boot_return" /\ state # "booting") => state' = state ]_vars

\* C17: in boot(), the progress notification of step i is delivered before
\* step i runs and after step i-1 has finished, and dashboard_ready is
\* already true when boot() sets READY.
C17_NotifyThenStep ==
  [][ /\ last_op'.op = "boot_notify" =>
           /\ executed = [j \in 1..(step_idx - 1) |-> j]
           /\ executed' = executed
           /\ \A k \in 1..Len(boot_callbacks) :
                /\ StepsOf(progress, k) = SubSeq(PipelineOrder, 1, step_idx - 1)
                /\ StepsOf(progress', k) = SubSeq(PipelineOrder, 1, step_idx)
      /\ last_op'.op = "boot_step" =>
           /\ executed = [j \in 1..(step_idx - 1) |-> j]
           /\ executed' = [j \in 1..step_idx |-> j]
           /\ \A k \in 1..Len(boot_callbacks) :
                StepsOf(progress, k) = SubSeq(PipelineOrder, 1, step_idx)
      /\ (last_op'.op = "boot_return" /\ boot_result' = "True") =>
           /\ boot_status.dashboard_ready
           /\ state' = "ready"
           /\ executed = [j \in 1..NumSteps |-> j] ]_vars

C17_Witness ==
  /\ last_op.op = "boot_return"
  /\ state = "ready"
  /\ boot_status.dashboard_ready
  /\ Len(boot_callbacks) = 2
  /\ Len(progress) = 2 * NumSteps

\* C18: in every state, also over repeated boot() calls, boot_complete_time
\* is set exactly when the boot run has finished, and when set it is not
\* before boot_start_time.
C18_CompleteTime ==
  /\ (boot_status.boot_complete_time # 0) <=> (pc = "done")
  /\ (boot_status.boot_complete_time # 0) =>
       boot_status.boot_complete_time >= boot_status.boot_start_time

\* C19: shutdown() called in a state other than SHUTTING_DOWN sets
\* SHUTTING_DOWN, notifies every state observer of it and leaves
\* memory_state IDLE; the readiness flags, the sensor flags and the battery
\* level are as before.
C19_ShutdownEffect ==
  [][ (last_op'.op = "shutdown" /\ state # "shutting_down") =>
        /\ state' = "shutting_down"
        /\ DeliveredToAll(notified', state_callbacks, "shutting_down")
        /\ \A k \in 1..Len(notified') : ~notified'[k].status.is_ready
        /\ memory_state' = "idle"
        /\ boot_status' = boot_status
        /\ sensor_status' = sensor_status ]_vars

C19_Witness ==
  /\ last_op.op = "shutdown"
  /\ boot_status.dashboard_ready
  /\ sensor_status.bme280_connected
  /\ state_callbacks # <<>>
  /\ Len(notified) = Len(state_callbacks)

\* C20: a dict get_status() has returned keeps its contents: no later
\* operation changes what its holder reads in it.
C20_SnapshotDecoupled ==
  (status_pc = "idle" /\ snapshot # <<>>) =>
    Held(snapshot[1], boot_status) = snapshot[1]

\* C21: whatever the configuration file is (absent, malformed, empty,
\* valid), a boot(simulate=True) call in which no fault is injected runs the
\* 8 steps with none failing: it appends nothing to errors and ends with the
\* six readiness flags true.
C21_SimulateSucceeds ==
  ( /\ pc = "done"
    /\ simulated
    /\ \A j \in 1..Len(AppendedErrors) : AppendedErrors[j][4] # FaultText ) =>
    /\ executed = [j \in 1..NumSteps |-> j]
    /\ failed = <<>>
    /\ AppendedErrors = <<>>
    /\ \A f \in ReadinessFlags : boot_status[f]

\* C22: set_battery_level raises nothing, for every level, in every state,
\* before, during and after boot and whatever file the configuration was
\* loaded from; it stores the clamped level.
C22_BatteryNeverRaises ==
  (last_op.op = "set_battery_level") =>
    /\ ~last_op.raised
    /\ boot_status.battery_level = ExpectedLevel(last_op.level)

\* C23: after any number of boot(simulate=True) calls in which the scan
\* step ran, i2c_devices_detected holds the three expected devices once
\* each, in order, and their three connected flags are true.
C23_DevicesListedOnce ==
  ( /\ pc = "done"
    /\ ~is_pi_hardware
    /\ \A j \in 1..Len(boot_status.errors) :
         boot_status.errors[j][2] # "Scanning I2C devices" ) =>
    /\ boot_status.i2c_devices_detected =
         << <<"MAX30102 (SpO2/HR)", " at 0x", "5", "7">>,
            <<"MLX90614 (Temperature)", " at 0x", "5", "A">>,
            <<"BME280 (Environment)", " at 0x", "7", "6">> >>
    /\ sensor_status.max30102_connected
    /\ sensor_status.mlx90614_connected
    /\ sensor_status.bme280_connected

\* C24: set_battery_level with a level above the low threshold leaves the
\* state as it is and notifies nobody; LOW_POWER stays LOW_POWER when the
\* level is back at 100.
C24_NoExitFromLowPower ==
  [][ ( /\ last_op'.op = "set_battery_level"
        /\ last_op'.level > LowThreshold(config) ) =>
        /\ state' = state
        /\ notified' = <<>> ]_vars

C24_Witness ==
  /\ last_op.op = "set_battery_level"
  /\ last_op.level = 101
  /\ boot_status.battery_level = 100
  /\ state = "low_power"
  /\ state_callbacks # <<>>

\* C25: set_battery_level changes battery_level and, when it enters
\* LOW_POWER, the state; the readiness flags, the device and error lists,
\* the timestamps, the sensor status, memory_state, the configuration and
\* both observer lists are as before.
C25_BatteryFrame ==
  [][ (last_op'.op = "set_battery_level") =>
        /\ boot_status' =
             [boot_status EXCEPT !.battery_level = boot_status'.battery_level]
        /\ state' \in {state, "low_power"}
        /\ sensor_status' = sensor_status
        /\ memory_state' = memory_state
        /\ config' = config
        /\ state_callbacks' = state_callbacks
        /\ boot_callbacks' = boot_callbacks ]_vars

C25_Witness ==
  /\ last_op.op = "set_battery_level"
  /\ state = "low_power"
  /\ boot_status.dashboard_ready
  /\ boot_status.errors # <<>>
  /\ boot_status.i2c_devices_detected # <<>>
  /\ sensor_status.bme280_connected

\* C26: when no step and no observer call hangs, every boot() call
\* finishes, whatever fails and whatever requests are handled meanwhile: it
\* gets past the pipeline, sets boot_complete_time and returns True or
\* False.
C26_BootTerminates ==
  /\ Running ~> (pc = "done")
  /\ [](pc = "done" =>
          /\ boot_result \in {"True", "False"}
          /\ boot_status.boot_complete_time # 0
          /\ executed = [j \in 1..NumSteps |-> j])

C26_Witness ==
  /\ pc = "done"
  /\ last_op.op = "boot_return"
  /\ failed # <<>>
  /\ interleaved
  /\ boot_result = "False"
  /\ boot_status.boot_complete_time # 0

====
